---------------------------- MODULE Spec2Model ----------------------------
(***************************************************************************)
(* Model of the explicit Euler optimizer (EulerMethod.cc) and of the Gauss *)
(* curvature constraint (GaussCurvatureConstraint.cc) of the MIRTK         *)
(* Deformable module.                                                      *)
(*                                                                         *)
(* Six specifications share the variables:                                 *)
(*   Spec             EulerMethod::Run, one action per statement of Run    *)
(*   SpecClamp        the ClampDisplacements functor on a blocked range    *)
(*   SpecUpdate       GaussCurvatureConstraint::Update and the mesh clock  *)
(*   SpecSet          EulerMethod::Set                                     *)
(*   SpecGradient     GaussCurvatureConstraint::EvaluateGradient           *)
(*   SpecCopy         EulerMethod copy construction and assignment         *)
(*                                                                         *)
(* Numbers are fixed point: Unit quanta make 1.0.  The inputs are chosen   *)
(* so that every square root and quotient the code takes is exact.         *)
(***************************************************************************)
EXTENDS Integers, Sequences, FiniteSets

VARIABLES
  \* ---- EulerMethod attributes
  pc,                   \* position of Run()
  iter,                 \* step.Iter()
  NumberOfSteps,        \* _NumberOfSteps
  Epsilon,              \* _Epsilon
  Delta,                \* _Delta
  StepLength,           \* _StepLength
  NormalizeStepLength,  \* _NormalizeStepLength
  MaximumDisplacement,  \* _MaximumDisplacement
  NormalDisplacement,   \* _NormalDisplacement is set (and the output is a surface)
  NumberOfDOFs,         \* _NumberOfDOFs: capacity of _Gradient and _Displacement
  Gradient,             \* _Gradient, one 3-vector per model point
  Displacement,         \* _Displacement, one 3-vector per model point
  LastDelta,            \* _LastDelta
  value,                \* local value of Run()
  retval,               \* what Run() returned
  \* ---- the deformable surface model and the observers, as Run() sees them
  modelDOFs,            \* _Model->NumberOfDOFs()
  converged,            \* what the last Converged() call returned
  exitReason,           \* how the while loop was left
  calls,                \* calls made since the last IterationStartEvent (or since Run began)
  nIterStart,           \* IterationStartEvent broadcasts
  nIterEnd,             \* IterationEndEvent broadcasts
  nRemesh,              \* _Model->Remesh() calls
  nValue,               \* _Model->Value() calls
  nEnd,                 \* EndEvent broadcasts
  endValue,             \* the value the EndEvent carried
  lastValueResult,      \* what the last _Model->Value() call returned
  valueAtIterStart,     \* value when the current iteration began
  \* ---- ClampDisplacements on a buffer of its own
  dx,                   \* the buffer being clamped
  dx0,                  \* the buffer as it was handed in
  max_dx,               \* the functor's max_dx argument
  clamped,              \* how often each point has been clamped
  \* ---- GaussCurvatureConstraint and the shared point data
  clock,                \* the global modification clock (vtkTimeStamp)
  geom,                 \* the surface geometry
  surfaceMTime,         \* _PointSet->Surface()->GetMTime()
  numberOfPoints,       \* _NumberOfPoints
  gaussMTime,           \* gaussCurvature->GetMTime()
  meanMTime,            \* meanCurvature->GetMTime()
  gaussCurvature,       \* values of the Gauss curvature array
  meanCurvature,        \* values of the mean curvature array
  curvRuns,             \* SurfaceCurvature::Run() calls since the geometry last changed
  smoothRuns,           \* MeshSmoothing::Run() calls since the geometry last changed
  updates,              \* Update() calls since the geometry last changed
  \* ---- EulerMethod::Set
  nSets,                \* Set() calls made
  lastSet,              \* the last Set() call: its arguments, what it returned, whether
                        \* it went to the base class, the three parameters before it
  \* ---- GaussCurvatureConstraint::EvaluateGradient
  status,               \* _PointSet->SurfaceStatus(): one value per point, <<>> if NULL
  edgeTable,            \* _PointSet->SurfaceEdges(): the neighbours of each point
  curvGradient,         \* _Gradient of the constraint, one 3-vector per point
  callerGradient,       \* the caller's buffer, argument gradient
  leftBehind,           \* _Gradient as the call before the last one left it
  nEvaluations,         \* EvaluateGradient() calls made
  \* ---- EulerMethod copy construction and assignment
  allocated,            \* the size _Gradient and _Displacement were allocated with, 0 if NULL
  other,                \* the optimizer last copied from
  lastCopy,             \* the last memcpy: values written, capacity written into
  crashed,              \* a write outside the buffers ended the process
  nCopies               \* copies made

runVars == <<pc, iter, NumberOfSteps, Epsilon, Delta, StepLength, NormalizeStepLength,
             MaximumDisplacement, NormalDisplacement, NumberOfDOFs, Gradient,
             Displacement, LastDelta, value, retval, modelDOFs, converged,
             exitReason, calls, nIterStart, nIterEnd, nRemesh, nValue, nEnd, endValue,
             lastValueResult, valueAtIterStart>>
clampVars == <<dx, dx0, max_dx, clamped>>
curvVars == <<clock, geom, surfaceMTime, numberOfPoints, gaussMTime, meanMTime,
              gaussCurvature, meanCurvature, curvRuns, smoothRuns, updates>>
setVars == <<nSets, lastSet>>
\* What only the specifications further down change
gradVars == <<status, edgeTable, curvGradient, callerGradient, leftBehind, nEvaluations>>
copyVars == <<allocated, other, lastCopy, crashed, nCopies>>
restVars == <<setVars, gradVars, copyVars>>
vars == <<runVars, clampVars, curvVars, restVars>>

---------------------------------------------------------------------------
\* Bounds of the model

\* largest _NumberOfSteps
MaxSteps == 2
\* largest number of model points
MaxPoints == 2
\* largest realized delta _Model->Step returns
MaxStepDelta == 2

\* quanta that make 1.0
Unit == 5
\* _Epsilon as the constructor sets it: 1e-9, the smallest positive quantum
EpsilonDefault == 1

---------------------------------------------------------------------------
\* Vectors and arithmetic

Zero3 == <<0, 0, 0>>
Dot(a, b) == a[1] * b[1] + a[2] * b[2] + a[3] * b[3]
Cross(a, b) == <<a[2] * b[3] - a[3] * b[2], a[3] * b[1] - a[1] * b[3],
                 a[1] * b[2] - a[2] * b[1]>>
Scale(k, a) == <<k * a[1], k * a[2], k * a[3]>>

RECURSIVE SqrtFrom(_, _)
SqrtFrom(n, r) == IF (r + 1) * (r + 1) > n THEN r ELSE SqrtFrom(n, r + 1)
\* sqrt(n), exact on squares
Sqrt(n) == SqrtFrom(n, 0)

RECURSIVE SumSeq(_)
SumSeq(s) == IF s = <<>> THEN 0 ELSE Head(s) + SumSeq(Tail(s))
RECURSIVE MaxSeq(_)
MaxSeq(s) == IF s = <<>> THEN 0
             ELSE LET m == MaxSeq(Tail(s)) IN IF Head(s) > m THEN Head(s) ELSE m

\* Energy values: two finite ones and +infinity
Inf == 2
IsInf(v) == v = Inf
Values == {0, 1, Inf}
\* Configured values of _Delta
Thresholds == {0, 1}

---------------------------------------------------------------------------
\* EulerMethodUtils and the displacement policy of EulerMethod

NumberOfPoints == modelDOFs \div 3

\* The model's aggregated gradient: all zero, or a force on the first two points
ZeroGradient(n) == [p \in 1 .. n |-> Zero3]
ForceGradient(n) == [p \in 1 .. n |-> IF p = 1 THEN <<3, 0, 0>>
                                      ELSE IF p = 2 THEN <<0, 4, 0>> ELSE Zero3]
GradientChoices(n) == {ZeroGradient(n), ForceGradient(n)}

\* _Model->GradientNorm(_Gradient): the Euclidean norm of the whole buffer
ModelGradientNorm(g) == Sqrt(SumSeq([p \in 1 .. Len(g) |-> Dot(g[p], g[p])]))

\* EulerMethod::GradientNorm(), as the fraction <<numerator, denominator>> of 1.0
GradientNorm(g) ==
  IF NormalizeStepLength
  THEN LET norm == ModelGradientNorm(g) IN
       IF norm > 0 THEN <<norm, Unit>> ELSE <<Unit, Unit>>
  ELSE <<1, NumberOfPoints>>

\* ComputeDisplacements: d = (-dt / norm) * g for every point
ComputeDisplacements(gradient, dt, norm) ==
  [p \in 1 .. Len(gradient) |->
     [i \in 1 .. 3 |-> (0 - dt * norm[2] * gradient[p][i]) \div (Unit * norm[1])]]

\* The factor sqrt(_Maximum / norm) of ClampDisplacements, as a fraction
ClampFactorNoSqrt(Maximum, norm) == <<Maximum, norm>>
ClampFactor(Maximum, norm) == <<Sqrt(Maximum), Sqrt(norm)>>

\* The body of the loop of ClampDisplacements::operator() for one point
ClampVector(d, Maximum) ==
  LET norm == Dot(d, d) IN
  IF norm > Maximum
  THEN LET f == ClampFactor(Maximum, norm) IN [i \in 1 .. 3 |-> (d[i] * f[1]) \div f[2]]
  ELSE d

\* ClampDisplacements(dx, max_dx) applied to the blocked range [begin, end)
ClampDisplacements(buf, maxdx, begin, end) ==
  [p \in 1 .. Len(buf) |->
     IF begin < p /\ p <= end THEN ClampVector(buf[p], maxdx * maxdx) ELSE buf[p]]

\* EulerMethod::TruncateDisplacement(force)
TruncateDisplacement(buf, force) ==
  LET m0 == MaximumDisplacement
      m  == IF m0 <= 0 THEN (IF NormalizeStepLength THEN StepLength ELSE Unit) ELSE m0
  IN IF force \/ ~NormalizeStepLength \/ m < StepLength
     THEN ClampDisplacements(buf, m, 0, Len(buf))
     ELSE buf

\* Largest per-point magnitude of a displacement buffer
MaxMagnitude(buf) == MaxSeq([p \in 1 .. Len(buf) |-> Sqrt(Dot(buf[p], buf[p]))])

---------------------------------------------------------------------------
\* EulerMethod::Run()

LoopPcs == {"IterationStart", "Remesh", "Gradient", "UpdateDisplacement", "Step",
            "Update", "UpdateNormalDisplacement", "Value", "Converged", "IterationEnd"}
ExitPcs == {"End", "Finalize", "Done"}

StepLengths == {Unit, 2 * Unit}
MaximumDisplacements == {0, Unit}

\* The state after construction and configuration, bound to a model
InitRun ==
  /\ pc = "Initialize"
  /\ iter = 0
  /\ NumberOfSteps \in 0 .. MaxSteps
  /\ Epsilon = EpsilonDefault
  /\ Delta \in Thresholds
  /\ StepLength \in StepLengths
  /\ NormalizeStepLength \in BOOLEAN
  /\ MaximumDisplacement \in MaximumDisplacements
  /\ NormalDisplacement \in BOOLEAN
  /\ NumberOfDOFs = 0
  /\ Gradient = <<>>
  /\ Displacement = <<>>
  /\ LastDelta = 0
  /\ value = 0
  /\ retval = 0
  /\ modelDOFs \in {3 * n : n \in 1 .. MaxPoints}
  /\ converged = FALSE
  /\ exitReason = "none"
  /\ calls = <<>>
  /\ nIterStart = 0
  /\ nIterEnd = 0
  /\ nRemesh = 0
  /\ nValue = 0
  /\ nEnd = 0
  /\ endValue = 0
  /\ lastValueResult = 0
  /\ valueAtIterStart = 0

\* The test that guards both reallocations of the node vectors
MustGrowByPoints(m, cap) == m \div 3 > cap
MustGrow(m, cap) == m > cap

\* Deallocate and Allocate both node vectors for m degrees of freedom
Reallocate(m) ==
  /\ NumberOfDOFs' = m
  /\ Gradient' = <<>>
  /\ Displacement' = <<>>

configVars == <<NumberOfSteps, Epsilon, Delta, StepLength, NormalizeStepLength,
                MaximumDisplacement, NormalDisplacement>>
\* What no statement of Run() changes
frameRun == <<configVars, clampVars, curvVars, restVars>>
eventVars == <<nIterStart, nIterEnd, nEnd, endValue, valueAtIterStart>>
valueVars == <<value, retval, nValue, lastValueResult>>

\* EulerMethod::Initialize()
Initialize ==
  /\ pc = "Initialize"
  /\ IF MustGrow(modelDOFs, NumberOfDOFs)
     THEN Reallocate(modelDOFs)
     ELSE UNCHANGED <<NumberOfDOFs, Gradient, Displacement>>
  /\ pc' = "RemeshInitial"
  /\ UNCHANGED <<iter, frameRun, eventVars, valueVars, LastDelta, modelDOFs, converged,
                 exitReason, calls, nRemesh>>

\* EulerMethod::RemeshModel(), continuing at next
RemeshModel(next) ==
  /\ nRemesh' = nRemesh + 1
  /\ pc' = next
  /\ \E changed \in BOOLEAN :
       IF changed
       THEN \E n \in 1 .. MaxPoints :
              /\ modelDOFs' = 3 * n
              /\ calls' = calls \o <<"Remesh", "Update">>
              /\ IF MustGrow(3 * n, NumberOfDOFs)
                 THEN Reallocate(3 * n)
                 ELSE UNCHANGED <<NumberOfDOFs, Gradient, Displacement>>
       ELSE /\ calls' = Append(calls, "Remesh")
            /\ UNCHANGED <<modelDOFs, NumberOfDOFs, Gradient, Displacement>>
  /\ UNCHANGED <<iter, frameRun, eventVars, valueVars, LastDelta, converged, exitReason>>

\* Run(): the initial remeshing of the input point set
RemeshInitial ==
  /\ pc = "RemeshInitial"
  /\ RemeshModel("Start")

\* Run(): initial model update, StartEvent, initial energy value
Start ==
  /\ pc = "Start"
  /\ \E v \in Values :
       /\ value' = v
       /\ lastValueResult' = v
  /\ nValue' = nValue + 1
  /\ calls' = calls \o <<"Update", "StartEvent", "Value">>
  /\ pc' = "Next"
  /\ UNCHANGED <<iter, frameRun, eventVars, retval, LastDelta, modelDOFs, converged,
                 exitReason, nRemesh, NumberOfDOFs, Gradient, Displacement>>

\* Iteration::Next() of Iteration step(0, _NumberOfSteps)
IterationNextInclusive(it, end) == it <= end
IterationNext(it, end) == it < end

\* Run(): while (step.Next())
StepNext ==
  /\ pc = "Next"
  /\ IF IterationNext(iter, NumberOfSteps)
     THEN /\ iter' = iter + 1
          /\ pc' = "IterationStart"
          /\ UNCHANGED exitReason
     ELSE /\ pc' = "End"
          /\ exitReason' = "max"
          /\ UNCHANGED iter
  /\ UNCHANGED <<frameRun, eventVars, valueVars, LastDelta, modelDOFs, converged, calls,
                 nRemesh, NumberOfDOFs, Gradient, Displacement>>

\* Whether RemeshModel is called at the start of iteration it
RemeshInEveryIteration(it) == it >= 1
RemeshInIteration(it) == it > 1

\* Run(): Broadcast(IterationStartEvent, &step)
IterationStart ==
  /\ pc = "IterationStart"
  /\ nIterStart' = nIterStart + 1
  /\ valueAtIterStart' = value
  /\ calls' = <<"IterationStartEvent">>
  /\ pc' = IF RemeshInIteration(iter) THEN "Remesh" ELSE "Gradient"
  /\ UNCHANGED <<iter, frameRun, nIterEnd, nEnd, endValue, valueVars, LastDelta,
                 modelDOFs, converged, exitReason, nRemesh, NumberOfDOFs, Gradient,
                 Displacement>>

\* Run(): if (step.Iter() > 1) this->RemeshModel()
Remesh ==
  /\ pc = "Remesh"
  /\ RemeshModel("Gradient")

\* Run(): _Model->Gradient(_Gradient)
ModelGradient ==
  /\ pc = "Gradient"
  /\ Gradient' \in GradientChoices(NumberOfPoints)
  /\ calls' = Append(calls, "Gradient")
  /\ pc' = "UpdateDisplacement"
  /\ UNCHANGED <<iter, frameRun, eventVars, valueVars, LastDelta, modelDOFs, converged,
                 exitReason, nRemesh, NumberOfDOFs, Displacement>>

\* Run(): this->UpdateDisplacement(), that is EulerMethod::UpdateDisplacement():
\* the norm, then ComputeDisplacements over all points, then TruncateDisplacement()
UpdateDisplacement ==
  /\ pc = "UpdateDisplacement"
  /\ \E norm \in {GradientNorm(Gradient)} :
       \E d \in {ComputeDisplacements(Gradient, StepLength, norm)} :
         Displacement' = TruncateDisplacement(d, FALSE)
  /\ calls' = Append(calls, "UpdateDisplacement")
  /\ pc' = "Step"
  /\ UNCHANGED <<iter, frameRun, eventVars, valueVars, LastDelta, modelDOFs, converged,
                 exitReason, nRemesh, NumberOfDOFs, Gradient>>

\* if (_LastDelta <= _Delta) break;
StepBreaksOnEpsilon(d) == d <= Epsilon
StepBreaksStrict(d) == d < Delta
StepBreaks(d) == d <= Delta

\* Where Run() continues after _Model->Step returned d
AfterStepNoBreak(d) == "Update"
AfterStep(d) == IF StepBreaks(d) THEN "End" ELSE "Update"

\* Run(): _LastDelta = _Model->Step(_Displacement) and the break on a small step
ModelStep ==
  /\ pc = "Step"
  /\ \E d \in 0 .. MaxStepDelta :
       /\ LastDelta' = d
       /\ pc' = AfterStep(d)
       /\ exitReason' = IF AfterStep(d) = "End" THEN "degenerate" ELSE exitReason
  /\ calls' = Append(calls, "Step")
  /\ UNCHANGED <<iter, frameRun, eventVars, valueVars, modelDOFs, converged, nRemesh,
                 NumberOfDOFs, Gradient, Displacement>>

\* Run(): _Model->Update(true) after the step
ModelUpdate ==
  /\ pc = "Update"
  /\ calls' = Append(calls, "Update")
  /\ pc' = "UpdateNormalDisplacement"
  /\ UNCHANGED <<iter, frameRun, eventVars, valueVars, LastDelta, modelDOFs, converged,
                 exitReason, nRemesh, NumberOfDOFs, Gradient, Displacement>>

\* EulerMethod::UpdateNormalDisplacement()
UpdateNormalDisplacement ==
  /\ pc = "UpdateNormalDisplacement"
  /\ calls' = IF NormalDisplacement THEN Append(calls, "NormalDisplacement") ELSE calls
  /\ pc' = "Value"
  /\ UNCHANGED <<iter, frameRun, eventVars, valueVars, LastDelta, modelDOFs, converged,
                 exitReason, nRemesh, NumberOfDOFs, Gradient, Displacement>>

\* Run(): const double prev = value; if (!IsInf(prev)) value = _Model->Value()
ModelValue ==
  /\ pc = "Value"
  /\ IF ~IsInf(value)
     THEN /\ \E v \in Values :
               /\ value' = v
               /\ lastValueResult' = v
          /\ nValue' = nValue + 1
          /\ calls' = Append(calls, "Value")
     ELSE UNCHANGED <<value, lastValueResult, nValue, calls>>
  /\ pc' = "Converged"
  /\ UNCHANGED <<iter, frameRun, eventVars, retval, LastDelta, modelDOFs, converged,
                 exitReason, nRemesh, NumberOfDOFs, Gradient, Displacement>>

\* Run(): if (Converged(step.Iter(), prev, value, _Displacement)) break
TestConverged ==
  /\ pc = "Converged"
  /\ \E c \in BOOLEAN :
       /\ converged' = c
       /\ pc' = IF c THEN "End" ELSE "IterationEnd"
       /\ exitReason' = IF c THEN "converged" ELSE exitReason
  /\ calls' = Append(calls, "Converged")
  /\ UNCHANGED <<iter, frameRun, eventVars, valueVars, LastDelta, modelDOFs, nRemesh,
                 NumberOfDOFs, Gradient, Displacement>>

\* Run(): Broadcast(IterationEndEvent, &step)
IterationEnd ==
  /\ pc = "IterationEnd"
  /\ nIterEnd' = nIterEnd + 1
  /\ calls' = Append(calls, "IterationEndEvent")
  /\ pc' = "Next"
  /\ UNCHANGED <<iter, frameRun, nIterStart, nEnd, endValue, valueAtIterStart, valueVars,
                 LastDelta, modelDOFs, converged, exitReason, nRemesh, NumberOfDOFs,
                 Gradient, Displacement>>

\* The value Broadcast(EndEvent, &value) hands to the observers
EndEventStale == valueAtIterStart
EndEventValue == value

\* Run(): Broadcast(EndEvent, &value)
End ==
  /\ pc = "End"
  /\ nEnd' = nEnd + 1
  /\ endValue' = EndEventValue
  /\ pc' = "Finalize"
  /\ UNCHANGED <<iter, frameRun, nIterStart, nIterEnd, valueAtIterStart, valueVars,
                 LastDelta, modelDOFs, converged, exitReason, calls, nRemesh, NumberOfDOFs,
                 Gradient, Displacement>>

\* Run(): this->Finalize(); return value
Finalize ==
  /\ pc = "Finalize"
  /\ retval' = value
  /\ calls' = Append(calls, "Finalize")
  /\ pc' = "Done"
  /\ UNCHANGED <<iter, frameRun, eventVars, value, nValue, lastValueResult,
                 LastDelta, modelDOFs, converged, exitReason, nRemesh, NumberOfDOFs,
                 Gradient, Displacement>>

---------------------------------------------------------------------------
\* The specification of Run()

\* The clamp buffer and the curvature term, at rest
IdleClamp == dx = <<>> /\ dx0 = <<>> /\ max_dx = 0 /\ clamped = <<>>
IdleCurv ==
  /\ clock = 0 /\ geom = 0 /\ surfaceMTime = 0 /\ numberOfPoints = 0
  /\ gaussMTime = 0 /\ meanMTime = 0 /\ gaussCurvature = <<>> /\ meanCurvature = <<>>
  /\ curvRuns = 0 /\ smoothRuns = 0 /\ updates = 0

\* No Set() call made
NoSet == [name |-> "", value |-> <<>>, result |-> FALSE, forwarded |-> FALSE,
          before |-> <<0, FALSE, 0>>]
IdleSet == nSets = 0 /\ lastSet = NoSet
\* The constraint without a surface
IdleGrad ==
  /\ status = <<>> /\ edgeTable = <<>> /\ curvGradient = <<>> /\ callerGradient = <<>>
  /\ leftBehind = <<>> /\ nEvaluations = 0
\* No optimizer copied
NoCopy == [n |-> 0, capacity |-> 0]
NoOther == [StepLength |-> 0, NormalizeStepLength |-> FALSE, MaximumDisplacement |-> 0,
            NormalDisplacement |-> FALSE, Delta |-> 0, NumberOfDOFs |-> 0,
            Gradient |-> <<>>, Displacement |-> <<>>]
IdleCopy ==
  /\ allocated = 0 /\ other = NoOther /\ lastCopy = NoCopy /\ crashed = FALSE
  /\ nCopies = 0
IdleRest == IdleSet /\ IdleGrad /\ IdleCopy

Init == InitRun /\ IdleClamp /\ IdleCurv /\ IdleRest

Next ==
  \/ Initialize
  \/ RemeshInitial
  \/ Start
  \/ StepNext
  \/ IterationStart
  \/ Remesh
  \/ ModelGradient
  \/ UpdateDisplacement
  \/ ModelStep
  \/ ModelUpdate
  \/ UpdateNormalDisplacement
  \/ ModelValue
  \/ TestConverged
  \/ IterationEnd
  \/ End
  \/ Finalize

Spec == Init /\ [][Next]_vars

---------------------------------------------------------------------------
\* Properties of Run()

Called(c) == \E i \in 1 .. Len(calls) : calls[i] = c
CountCalls(c) == Cardinality({i \in 1 .. Len(calls) : calls[i] = c})
FirstCall(c) == CHOOSE i \in 1 .. Len(calls) :
                  calls[i] = c /\ \A j \in 1 .. i - 1 : calls[j] # c
\* The calls Run() made before Finalize
LoopCalls == SelectSeq(calls, LAMBDA c : c # "Finalize")
LastLoopCall == IF LoopCalls = <<>> THEN "none" ELSE LoopCalls[Len(LoopCalls)]

\* C1, state part: the body runs at most _NumberOfSteps times, the counter counts the
\* bodies from 1, and the loop is left only with the counter at the maximum, after
\* Converged() returned true, or after Step returned a delta at or below the threshold.
C1_Bounded ==
  /\ nIterStart <= NumberOfSteps
  /\ iter <= NumberOfSteps
  /\ pc \in LoopPcs => /\ 1 <= iter
                       /\ iter = nIterStart + (IF pc = "IterationStart" THEN 1 ELSE 0)
  /\ pc \in ExitPcs =>
       /\ iter = nIterStart
       /\ \/ /\ iter = NumberOfSteps
             /\ LastLoopCall = IF iter = 0 THEN "Value" ELSE "IterationEndEvent"
          \/ /\ LastLoopCall = "Converged"
             /\ converged
          \/ /\ LastLoopCall = "Step"
             /\ LastDelta <= Delta

\* Position of Run() in program order: no statement is executed twice at one rank
PcOrder == <<"IterationStart", "Remesh", "Gradient", "UpdateDisplacement", "Step",
             "Update", "UpdateNormalDisplacement", "Value", "Converged", "IterationEnd">>
Rank ==
  LET body == Len(PcOrder) + 1
      top  == 3 + body * NumberOfSteps
  IN CASE pc = "Initialize" -> 0
       [] pc = "RemeshInitial" -> 1
       [] pc = "Start" -> 2
       [] pc = "Next" -> 3 + body * iter
       [] pc \in LoopPcs ->
            3 + body * (iter - 1) + (CHOOSE k \in 1 .. Len(PcOrder) : PcOrder[k] = pc)
       [] pc = "End" -> top + 1
       [] pc = "Finalize" -> top + 2
       [] pc = "Done" -> top + 3

\* C1: Run() terminates after at most _NumberOfSteps iterations (every statement
\* raises the bounded rank and a statement is enabled until Run() has returned); the
\* counter starts at 0 and grows by exactly 1 when an iteration begins and never
\* otherwise; the loop is left only for one of the three reasons.
C1_RunTerminates ==
  /\ [](C1_Bounded /\ (pc = "Done" \/ ENABLED Next))
  /\ [][/\ Rank' > Rank
        /\ \/ iter' = iter
           \/ iter' = iter + 1 /\ pc = "Next" /\ pc' = "IterationStart"]_vars

\* C1 witness: a run that executed the maximum number of iterations and returned
C1_Witness ==
  /\ pc = "Done"
  /\ NumberOfSteps = 2
  /\ iter = 2
  /\ nIterEnd = 2
  /\ LastLoopCall = "IterationEndEvent"

\* C2: once Step has returned a delta at or below the threshold in an iteration, the
\* loop has been left on that account and nothing of the iteration followed the Step
\* call: no Update, no normal-displacement accumulation, no Value, no Converged.
C2_DegenerateStepExitsAtOnce ==
  (Called("Step") /\ LastDelta <= Delta) =>
    /\ pc \in ExitPcs
    /\ exitReason = "degenerate"
    /\ LastLoopCall = "Step"
    /\ CountCalls("Step") = 1
    /\ \A i \in FirstCall("Step") + 1 .. Len(calls) : calls[i] = "Finalize"
    /\ ~Called("NormalDisplacement") /\ ~Called("Value")
    /\ ~Called("Converged") /\ ~Called("IterationEndEvent")

\* C2 witness: Run() returned after a degenerate step in its second iteration
C2_Witness ==
  /\ pc = "Done"
  /\ iter = 2
  /\ Called("Step")
  /\ LastDelta <= Delta
  /\ NormalDisplacement

\* C3 as stated: the loop stops on a degenerate step exactly when the realized delta
\* is at or below the convergence epsilon _Epsilon.
C3_ThresholdIsEpsilon ==
  Called("Step") => (exitReason = "degenerate" <=> LastDelta <= Epsilon)

\* C3 amended: the loop stops on a degenerate step exactly when the realized delta is
\* at or below _Delta; _Epsilon keeps the constructor's value and is not read.
C3_ThresholdIsDelta ==
  /\ Epsilon = EpsilonDefault
  /\ Called("Step") => (exitReason = "degenerate" <=> LastDelta <= Delta)

\* C3 witness: a delta at or below _Epsilon but above _Delta, and the loop goes on
C3_Witness ==
  /\ pc = "Update"
  /\ Called("Step")
  /\ LastDelta <= Epsilon
  /\ LastDelta > Delta

C6_RemeshOncePerLaterIteration ==
  (pc = "Done" /\ nIterStart >= 1) => nRemesh = nIterStart - 1

\* Remesh calls of the iterations begun so far
RemeshesInLoop ==
  IF iter <= 1 THEN 0
  ELSE iter - 1 - (IF pc \in {"IterationStart", "Remesh"} THEN 1 ELSE 0)

\* C6 amended: Remesh is invoked once before the loop and once at the start of every
\* iteration i > 1, before that iteration's gradient request, and not within iteration
\* 1; a run of k >= 1 iterations has invoked Remesh exactly k times.
C6_RemeshCadence ==
  /\ nRemesh = IF pc \in {"Initialize", "RemeshInitial"} THEN 0 ELSE 1 + RemeshesInLoop
  /\ (pc \in LoopPcs \ {"IterationStart"} /\ Called("Gradient")) =>
       IF iter > 1
       THEN CountCalls("Remesh") = 1 /\ FirstCall("Remesh") < FirstCall("Gradient")
       ELSE ~Called("Remesh")
  /\ (pc = "Done" /\ nIterStart >= 1) => nRemesh = nIterStart

\* C6 witness: a run of two iterations that invoked Remesh twice
C6_Witness ==
  /\ pc = "Done"
  /\ nIterStart = 2
  /\ nRemesh = 2

\* C7: the capacity of the node vectors never decreases, and whenever Run() is about
\* to call _Model->Gradient or _Model->Step it is at least the model's number of DOFs.
C7_CapacityCoversModel ==
  /\ [](pc \in {"Gradient", "Step"} => NumberOfDOFs >= modelDOFs)
  /\ [][NumberOfDOFs' >= NumberOfDOFs]_vars

\* C7 witness: Step is about to be called in iteration 2, after a remesh that changed
\* the topology, and the vectors cover the model's two points
C7_Witness ==
  /\ pc = "Step"
  /\ iter = 2
  /\ Len(calls) >= 3 /\ calls[2] = "Remesh" /\ calls[3] = "Update"
  /\ modelDOFs = 6
  /\ NumberOfDOFs = 6
  /\ Len(Displacement) = 2

\* C9: with a zero gradient in iteration 1, step length 1.0, normalization on and a
\* Step that realizes no more than was requested, the displacement is all zero, the
\* loop is left on the degenerate-step test in iteration 1 and Run() returns the
\* initial value.
C9_ZeroGradientStopsAtOnce ==
  ( /\ iter = 1
    /\ Called("Step")
    /\ \A p \in 1 .. Len(Gradient) : Gradient[p] = Zero3
    /\ StepLength = Unit
    /\ NormalizeStepLength
    /\ LastDelta <= MaxMagnitude(Displacement) ) =>
  ( /\ Len(Displacement) = NumberOfPoints
    /\ \A p \in 1 .. Len(Displacement) : Displacement[p] = Zero3
    /\ pc \in ExitPcs
    /\ exitReason = "degenerate"
    /\ nIterStart = 1
    /\ nValue = 1
    /\ pc = "Done" => retval = lastValueResult )

\* C9 witness: the flat patch: zero gradient, initial value 0, Run() returned 0
C9_Witness ==
  /\ pc = "Done"
  /\ iter = 1
  /\ NumberOfSteps = 2
  /\ \A p \in 1 .. Len(Gradient) : Gradient[p] = Zero3
  /\ StepLength = Unit
  /\ NormalizeStepLength
  /\ LastDelta = 0
  /\ exitReason = "degenerate"
  /\ retval = 0

---------------------------------------------------------------------------
\* ClampDisplacements on blocked ranges, as parallel_for applies it

\* largest multiple of a direction among the vectors handed in
MaxClampScale == 2
\* points of the buffer being clamped
ClampPoints == 2
\* how often one point is clamped
MaxClampPasses == 2

\* Directions of length Unit
ClampDirections == {<<3, 4, 0>>, <<0, 0 - 4, 3>>, <<0 - 5, 0, 0>>}
ClampInputs == {Scale(k, u) : k \in 0 .. MaxClampScale, u \in ClampDirections}
ClampMaxima == {Unit, 2 * Unit}

\* The optimizer, not running
IdleRun ==
  /\ pc = "Idle" /\ iter = 0 /\ NumberOfSteps = 0 /\ Epsilon = EpsilonDefault
  /\ Delta = 0 /\ StepLength = Unit /\ NormalizeStepLength = TRUE
  /\ MaximumDisplacement = 0 /\ NormalDisplacement = FALSE /\ NumberOfDOFs = 0
  /\ Gradient = <<>> /\ Displacement = <<>> /\ LastDelta = 0 /\ value = 0 /\ retval = 0
  /\ modelDOFs = 0 /\ converged = FALSE /\ exitReason = "none" /\ calls = <<>>
  /\ nIterStart = 0 /\ nIterEnd = 0 /\ nRemesh = 0 /\ nValue = 0 /\ nEnd = 0
  /\ endValue = 0 /\ lastValueResult = 0 /\ valueAtIterStart = 0

InitClamp ==
  /\ dx0 \in [1 .. ClampPoints -> ClampInputs]
  /\ dx = dx0
  /\ max_dx \in ClampMaxima
  /\ clamped = [p \in 1 .. ClampPoints |-> 0]
  /\ IdleRun
  /\ IdleCurv
  /\ IdleRest

\* ClampDisplacements(dx, max_dx)(blocked_range<int>(begin, end))
ClampRange(begin, end) ==
  /\ \A p \in begin + 1 .. end : clamped[p] < MaxClampPasses
  /\ dx' = ClampDisplacements(dx, max_dx, begin, end)
  /\ clamped' = [p \in 1 .. ClampPoints |->
                   IF begin < p /\ p <= end THEN clamped[p] + 1 ELSE clamped[p]]
  /\ UNCHANGED <<dx0, max_dx, runVars, curvVars, restVars>>

NextClamp == \E begin \in 0 .. ClampPoints - 1 : \E end \in begin + 1 .. ClampPoints :
               ClampRange(begin, end)

SpecClamp == InitClamp /\ [][NextClamp]_vars

\* What clamping the vector d0 to the bound m must give: d0 itself within the bound,
\* else the vector of magnitude m that points the way d0 does
IsClampOf(d, d0, m) ==
  IF Dot(d0, d0) <= m * m
  THEN d = d0
  ELSE /\ Dot(d, d) = m * m
       /\ Cross(d, d0) = Zero3
       /\ Dot(d, d0) > 0

\* C10: a clamped point holds its vector unchanged if that was within the bound, else
\* rescaled by a positive factor to magnitude max; a point outside the clamped ranges
\* holds what was handed in; clamping a point again changes nothing.
C10_ClampIsProjection ==
  /\ [](\A p \in 1 .. ClampPoints :
          IF clamped[p] = 0 THEN dx[p] = dx0[p] ELSE IsClampOf(dx[p], dx0[p], max_dx))
  /\ [][\A p \in 1 .. ClampPoints : clamped[p] >= 1 => dx'[p] = dx[p]]_vars

\* C10 witness: point 1 was over the bound and has been clamped twice, point 2 is over
\* the bound and has not been clamped
C10_Witness ==
  /\ clamped = <<2, 0>>
  /\ Dot(dx0[1], dx0[1]) > max_dx * max_dx
  /\ dx[1] # dx0[1]
  /\ Dot(dx[2], dx[2]) > max_dx * max_dx

---------------------------------------------------------------------------
\* GaussCurvatureConstraint::Update() and the modification times it compares

\* points of the surface, on a ring
CurvPoints == 3
\* changes of the surface geometry
MaxModifications == 2
\* Update() calls between two changes of the geometry
MaxUpdates == 3

Geometries == 0 .. 2
RingLeft(p, n) == IF p = 1 THEN n ELSE p - 1
RingRight(p, n) == IF p = n THEN 1 ELSE p + 1

\* SurfaceCurvature::Run(): the curvature of geometry g at each of n points
GaussOf(g, n) == [p \in 1 .. n |-> 8 * ((g + p) % 3) - 8]
MeanOf(g, n) == [p \in 1 .. n |-> 8 * ((g + 2 * p) % 3)]

\* MeshSmoothing: one pass replaces each value by the average of its neighbours
SmoothOnce(a) ==
  [p \in 1 .. Len(a) |-> (a[RingLeft(p, Len(a))] + a[RingRight(p, Len(a))]) \div 2]
\* smoother.NumberOfIterations(2); smoother.Run()
Smooth(a) == SmoothOnce(SmoothOnce(a))

\* A field is recomputed when it is older than the surface
IsStaleReversed(fieldMTime, surfMTime) == fieldMTime > surfMTime
IsStale(fieldMTime, surfMTime) == fieldMTime < surfMTime

\* array->Modified(): the stamp the array gets from the global clock
KeepMTime(old, now) == old
Modified(old, now) == now + 1

\* The state after Initialize(): each field either never computed (stale) or
\* computed for the current geometry by another term that shares it
InitUpdate ==
  /\ geom \in Geometries
  /\ numberOfPoints \in {0, CurvPoints}
  /\ surfaceMTime = 2
  /\ clock = 3
  /\ \E gaussFresh \in BOOLEAN :
       /\ gaussMTime = IF gaussFresh THEN 3 ELSE 1
       /\ gaussCurvature = IF gaussFresh THEN Smooth(GaussOf(geom, numberOfPoints))
                           ELSE [p \in 1 .. numberOfPoints |-> 0]
  /\ \E meanFresh \in BOOLEAN :
       /\ meanMTime = IF meanFresh THEN 3 ELSE 1
       /\ meanCurvature = IF meanFresh THEN Smooth(MeanOf(geom, numberOfPoints))
                          ELSE [p \in 1 .. numberOfPoints |-> 0]
  /\ curvRuns = 0
  /\ smoothRuns = 0
  /\ updates = 0
  /\ IdleRun
  /\ IdleClamp
  /\ IdleRest

\* The surface points move: the geometry and its modification time change
ModifyGeometry ==
  /\ clock < 3 + 3 * MaxModifications
  /\ \E g \in Geometries \ {geom} : geom' = g
  /\ clock' = clock + 1
  /\ surfaceMTime' = clock + 1
  /\ curvRuns' = 0
  /\ smoothRuns' = 0
  /\ updates' = 0
  /\ UNCHANGED <<numberOfPoints, gaussMTime, meanMTime, gaussCurvature, meanCurvature,
                 runVars, clampVars, restVars>>

\* GaussCurvatureConstraint::Update(bool gradient)
Update ==
  /\ updates < MaxUpdates
  /\ updates' = updates + 1
  /\ IF numberOfPoints = 0
     THEN UNCHANGED <<clock, gaussMTime, meanMTime, gaussCurvature, meanCurvature,
                      curvRuns, smoothRuns>>
     ELSE LET gauss == IsStale(gaussMTime, surfaceMTime)
              mean  == IsStale(meanMTime, surfaceMTime)
              t1    == IF gauss THEN Modified(gaussMTime, clock) ELSE gaussMTime
              now1  == IF gauss THEN clock + 1 ELSE clock
              t2    == IF mean THEN Modified(meanMTime, now1) ELSE meanMTime
              now2  == IF mean THEN now1 + 1 ELSE now1
          IN /\ curvRuns' = IF gauss \/ mean THEN curvRuns + 1 ELSE curvRuns
             /\ smoothRuns' = IF gauss \/ mean THEN smoothRuns + 1 ELSE smoothRuns
             /\ gaussCurvature' = IF gauss THEN Smooth(GaussOf(geom, numberOfPoints))
                                  ELSE gaussCurvature
             /\ meanCurvature' = IF mean THEN Smooth(MeanOf(geom, numberOfPoints))
                                 ELSE meanCurvature
             /\ gaussMTime' = t1
             /\ meanMTime' = t2
             /\ clock' = now2
  /\ UNCHANGED <<geom, surfaceMTime, numberOfPoints, runVars, clampVars, restVars>>

NextUpdate ==
  \/ ModifyGeometry
  \/ Update

SpecUpdate == InitUpdate /\ [][NextUpdate]_vars

\* C8: between two changes of the geometry the estimator and the smoother run at most
\* once, and only in the first Update(); every later Update() leaves the times and the
\* values of both curvature fields as they are.
C8_UpdateIdempotent ==
  /\ [](curvRuns <= 1 /\ smoothRuns <= 1)
  /\ [][(updates >= 1 /\ updates' = updates + 1) =>
          UNCHANGED <<gaussMTime, meanMTime, gaussCurvature, meanCurvature, curvRuns,
                      smoothRuns>>]_vars

\* C8 witness: after a change of the geometry both fields were recomputed by the first
\* of three Update() calls
C8_Witness ==
  /\ updates = 3
  /\ curvRuns = 1
  /\ smoothRuns = 1
  /\ surfaceMTime > 2
  /\ gaussMTime > surfaceMTime
  /\ meanMTime > gaussMTime
  /\ gaussCurvature = Smooth(GaussOf(geom, numberOfPoints))
  /\ gaussCurvature # GaussOf(geom, numberOfPoints)

\* C12: in an Update() on a mesh with at least one point each field is treated on its
\* own: a field older than the surface gets the smoothed curvature of the current
\* geometry and a later time, a field that is not older keeps its values and its time
\* whatever happens to the other one, and afterwards neither field is older than the
\* surface.
C12_FieldsIndependent ==
  [][(updates' = updates + 1 /\ numberOfPoints > 0) =>
       /\ IF gaussMTime < surfaceMTime
          THEN /\ gaussMTime' > gaussMTime
               /\ gaussCurvature' = Smooth(GaussOf(geom, numberOfPoints))
          ELSE UNCHANGED <<gaussMTime, gaussCurvature>>
       /\ IF meanMTime < surfaceMTime
          THEN /\ meanMTime' > meanMTime
               /\ meanCurvature' = Smooth(MeanOf(geom, numberOfPoints))
          ELSE UNCHANGED <<meanMTime, meanCurvature>>
       /\ gaussMTime' >= surfaceMTime'
       /\ meanMTime' >= surfaceMTime']_vars

\* C12 witness: one Update() on the unchanged surface recomputed the mean curvature,
\* which was stale, and left the Gauss curvature, which was fresh, with its time
C12_Witness ==
  /\ updates = 1
  /\ numberOfPoints > 0
  /\ surfaceMTime = 2
  /\ gaussMTime = 3
  /\ meanMTime > 3
  /\ curvRuns = 1
  /\ meanCurvature = Smooth(MeanOf(geom, numberOfPoints))
  /\ meanCurvature # [p \in 1 .. numberOfPoints |-> 0]

---------------------------------------------------------------------------
\* EulerMethod::Set(name, value)

\* Set() calls in one behaviour
MaxSets == 2

\* The parameter names Set() compares with
StepLengthNames ==
  {"Deformable surface step length", "Length of steps", "Maximum length of steps"}
NormalizeStepLengthNames ==
  {"Normalize length of steps", "Normalise length of steps",
   "Normalize maximum length of steps", "Normalise maximum length of steps",
   "Normalize deformable surface step length",
   "Normalise deformable surface step length"}
MaximumDisplacementNames ==
  {"Maximum deformable surface displacement", "Maximum node displacement"}
\* Names of the base class, and one that nobody knows
BaseNames == {"Epsilon", "Delta", "Maximum no. of iterations"}
SetNames == StepLengthNames \cup NormalizeStepLengthNames \cup MaximumDisplacementNames
              \cup BaseNames \cup {"No such parameter"}

\* Value strings, one character per element
SetValues == {<<"1">>, <<"2">>, <<"0">>, <<"-", "1">>, <<"-", "0">>, <<"1", "0">>,
              <<"x">>, <<"1", "x">>, <<"-">>, <<>>}

Digits == {"0", "1", "2"}
DigitValue(c) == IF c = "0" THEN 0 ELSE IF c = "1" THEN 1 ELSE 2
RECURSIVE DecimalValue(_)
DecimalValue(s) ==
  IF s = <<>> THEN 0
  ELSE 10 * DecimalValue(SubSeq(s, 1, Len(s) - 1)) + DigitValue(s[Len(s)])
\* The string without its sign
Unsigned(s) == IF s # <<>> /\ s[1] = "-" THEN Tail(s) ELSE s
\* The whole string is a number: an optional sign, then one digit or more
IsNumber(s) == Unsigned(s) # <<>> /\ \A i \in 1 .. Len(Unsigned(s)) : Unsigned(s)[i] \in Digits
\* Its value, in quanta
NumberOf(s) ==
  IF s # <<>> /\ s[1] = "-"
  THEN 0 - Unit * DecimalValue(Unsigned(s))
  ELSE Unit * DecimalValue(Unsigned(s))

\* FromString(value, double &): what it returns and what it leaves in the variable.
\* A string that is not a number as a whole is refused; the variable then holds its old
\* value, zero, or the number the string begins with.
FromStringDouble(s, old) ==
  IF IsNumber(s)
  THEN {[ok |-> TRUE, v |-> NumberOf(s)]}
  ELSE {[ok |-> FALSE, v |-> w] :
          w \in {old, 0} \cup {NumberOf(SubSeq(s, 1, k)) :
                                 k \in {j \in 1 .. Len(s) : IsNumber(SubSeq(s, 1, j))}}}

\* FromString(value, bool &), for the two strings of SetValues it knows
FromStringBool(s, old) ==
  IF s = <<"1">> THEN {[ok |-> TRUE, v |-> TRUE]}
  ELSE IF s = <<"0">> THEN {[ok |-> TRUE, v |-> FALSE]}
  ELSE {[ok |-> FALSE, v |-> old]}

\* The three comparisons of Set()
IsStepLengthNameShort(name) ==
  name \in {"Deformable surface step length", "Length of steps"}
IsStepLengthName(name) == name \in StepLengthNames
IsNormalizeStepLengthName(name) == name \in NormalizeStepLengthNames
IsMaximumDisplacementName(name) == name \in MaximumDisplacementNames

\* What Set() records of a call
SetCall(name, val, result, forwarded) ==
  [name |-> name, value |-> val, result |-> result, forwarded |-> forwarded,
   before |-> <<StepLength, NormalizeStepLength, MaximumDisplacement>>]

\* LocalOptimizer::Set(name, value)
LocalOptimizerSet(name, val) ==
  IF name = "Epsilon"
  THEN \E r \in FromStringDouble(val, Epsilon) :
         /\ Epsilon' = r.v
         /\ lastSet' = SetCall(name, val, r.ok, TRUE)
         /\ UNCHANGED <<Delta, NumberOfSteps>>
  ELSE IF name = "Delta"
  THEN \E r \in FromStringDouble(val, Delta) :
         /\ Delta' = r.v
         /\ lastSet' = SetCall(name, val, r.ok, TRUE)
         /\ UNCHANGED <<Epsilon, NumberOfSteps>>
  ELSE IF name = "Maximum no. of iterations"
  THEN \E r \in FromStringDouble(val, Unit * NumberOfSteps) :
         /\ NumberOfSteps' = r.v \div Unit
         /\ lastSet' = SetCall(name, val, r.ok, TRUE)
         /\ UNCHANGED <<Epsilon, Delta>>
  ELSE /\ lastSet' = SetCall(name, val, FALSE, TRUE)
       /\ UNCHANGED <<Epsilon, Delta, NumberOfSteps>>

\* What Set() leaves alone whatever the name is
frameSet == <<pc, iter, NormalDisplacement, NumberOfDOFs, Gradient, Displacement,
              LastDelta, value, retval, modelDOFs, converged, exitReason, calls,
              nIterStart, nIterEnd, nRemesh, nValue, nEnd, endValue, lastValueResult,
              valueAtIterStart, clampVars, curvVars, gradVars, copyVars>>

\* EulerMethod::Set(name, value)
Set(name, val) ==
  /\ nSets < MaxSets
  /\ nSets' = nSets + 1
  /\ IF IsStepLengthName(name)
     THEN \E r \in FromStringDouble(val, StepLength) :
            /\ StepLength' = r.v
            /\ lastSet' = SetCall(name, val, r.ok, FALSE)
            /\ UNCHANGED <<NormalizeStepLength, MaximumDisplacement, Epsilon, Delta,
                           NumberOfSteps>>
     ELSE IF IsNormalizeStepLengthName(name)
     THEN \E r \in FromStringBool(val, NormalizeStepLength) :
            /\ NormalizeStepLength' = r.v
            /\ lastSet' = SetCall(name, val, r.ok, FALSE)
            /\ UNCHANGED <<StepLength, MaximumDisplacement, Epsilon, Delta,
                           NumberOfSteps>>
     ELSE IF IsMaximumDisplacementName(name)
     THEN \E r \in FromStringDouble(val, MaximumDisplacement) :
            /\ MaximumDisplacement' = r.v
            /\ lastSet' = SetCall(name, val, r.ok, FALSE)
            /\ UNCHANGED <<StepLength, NormalizeStepLength, Epsilon, Delta,
                           NumberOfSteps>>
     ELSE /\ LocalOptimizerSet(name, val)
          /\ UNCHANGED <<StepLength, NormalizeStepLength, MaximumDisplacement>>
  /\ UNCHANGED frameSet

\* The optimizer as its constructor leaves it
InitSet == IdleRun /\ IdleClamp /\ IdleCurv /\ IdleRest

NextSet == \E name \in SetNames : \E val \in SetValues : Set(name, val)

SpecSet == InitSet /\ [][NextSet]_vars

\* The three parameters Set() owns
SetParameters == <<StepLength, NormalizeStepLength, MaximumDisplacement>>

\* C11 as stated: a step length or maximum displacement that parses as a number but is
\* zero or negative is refused, Set() returns false and the stored parameters are
\* unchanged; a name that is none of the three kinds goes to the base class and leaves
\* the three parameters unchanged.
C11_NonPositiveRejected ==
  nSets >= 1 =>
    /\ (/\ lastSet.name \in StepLengthNames \cup MaximumDisplacementNames
        /\ IsNumber(lastSet.value)
        /\ NumberOf(lastSet.value) <= 0)
         => (~lastSet.result /\ SetParameters = lastSet.before)
    /\ lastSet.name \notin (StepLengthNames \cup NormalizeStepLengthNames
                              \cup MaximumDisplacementNames)
         => (lastSet.forwarded /\ SetParameters = lastSet.before)

\* C11: Set() does not look at the sign.  A step length or maximum displacement that
\* parses as a number is stored and Set() returns true, also when it is zero or
\* negative, and the other two parameters are unchanged; a name that is none of the
\* three kinds goes to the base class and leaves the three parameters unchanged.
C11_SetStoresWhatParses ==
  nSets >= 1 =>
    /\ (lastSet.name \in StepLengthNames /\ IsNumber(lastSet.value))
         => /\ lastSet.result
            /\ ~lastSet.forwarded
            /\ SetParameters = <<NumberOf(lastSet.value), lastSet.before[2],
                                 lastSet.before[3]>>
    /\ (lastSet.name \in MaximumDisplacementNames /\ IsNumber(lastSet.value))
         => /\ lastSet.result
            /\ ~lastSet.forwarded
            /\ SetParameters = <<lastSet.before[1], lastSet.before[2],
                                 NumberOf(lastSet.value)>>
    /\ lastSet.name \notin (StepLengthNames \cup NormalizeStepLengthNames
                              \cup MaximumDisplacementNames)
         => (lastSet.forwarded /\ SetParameters = lastSet.before)

\* C11 witness: the second call gave "Maximum length of steps" the value -1, it was
\* accepted, and the step length is now negative
C11_Witness ==
  /\ nSets = 2
  /\ lastSet.name = "Maximum length of steps"
  /\ lastSet.value = <<"-", "1">>
  /\ lastSet.result
  /\ lastSet.before[1] > 0
  /\ StepLength = 0 - Unit

---------------------------------------------------------------------------
\* GaussCurvatureConstraint::EvaluateGradient(gradient, step, weight)
\*
\* Curvatures are in quanta of 1 / CurvUnit.  The points lie on the x axis, so that the
\* normalized spring force is exact, and _Gradient is in units of 1 / MagnitudeOne.

\* points of the surface
GradPoints == 3
\* EvaluateGradient() calls in one behaviour
MaxEvaluations == 2
\* curvature quanta that make 1.0
CurvUnit == 20

\* Curvature values the fields are made of: below, at and above the ramps of the
\* membership functions
KValues == <<0 - 4, 0, 2, 4>>
HValues == <<0 - 5, 0, 10, 20>>
CurvatureFields == 0 .. 3
GaussField(g, n) == [p \in 1 .. n |-> KValues[((g + p) % 4) + 1]]
MeanField(g, n) == [p \in 1 .. n |-> HValues[((2 * g + p) % 4) + 1]]

\* _Points->GetPoint(ptId) and _Normals->GetTuple(ptId)
PointOf(p) == <<2 * p * p, 0, 0>>
NormalOf(p) == IF p % 2 = 1 THEN <<Unit, 0, 0>> ELSE <<0 - Unit, 0, 0>>

\* Edge tables: a line, a line that leaves the last point out, a ring, no edges
LineEdges(n) ==
  [p \in 1 .. n |-> IF n = 1 THEN <<>>
                    ELSE IF p = 1 THEN <<2>>
                    ELSE IF p = n THEN <<n - 1>> ELSE <<p - 1, p + 1>>]
LastIsolated(n) == [p \in 1 .. n |-> IF p = n THEN <<>> ELSE LineEdges(n - 1)[p]]
RingEdges(n) == [p \in 1 .. n |-> <<RingLeft(p, n), RingRight(p, n)>>]
NoEdges(n) == [p \in 1 .. n |-> <<>>]
EdgeTables(n) == {LineEdges(n), LastIsolated(n), RingEdges(n), NoEdges(n)}

\* SShapedMembershipFunction(x, a, b), times (b - a)^2
SShapedMembershipFunction(x, a, b) ==
  IF x <= a THEN 0
  ELSE IF x >= b THEN (b - a) * (b - a)
  ELSE IF 2 * x <= a + b THEN 2 * (x - a) * (x - a)
  ELSE (b - a) * (b - a) - 2 * (x - b) * (x - b)

Abs(x) == IF x < 0 THEN 0 - x ELSE x
\* The value of m that stands for 1.0: the product of the scales of its two factors
MagnitudeOne == ((CurvUnit \div 5) * (CurvUnit \div 5)) * (CurvUnit * CurvUnit)

\* m, the magnitude of the spring force at curvatures K and H
Magnitude(K, H) ==
  SShapedMembershipFunction(Abs(K), 0, CurvUnit \div 5) *
    (IF H < 0
     THEN 4 * ((CurvUnit \div 2) * (CurvUnit \div 2)
               - SShapedMembershipFunction(0 - H, 0, CurvUnit \div 2))
     ELSE SShapedMembershipFunction(H, 0, CurvUnit))

\* vtkMath::Subtract, Add, MultiplyScalar by 1 / k, Normalize
Subtract(a, b) == <<a[1] - b[1], a[2] - b[2], a[3] - b[3]>>
Add(a, b) == <<a[1] + b[1], a[2] + b[2], a[3] + b[3]>>
DivideBy(k, a) == <<a[1] \div k, a[2] \div k, a[3] \div k>>
Normalize(a) == IF a = Zero3 THEN a ELSE DivideBy(Sqrt(Dot(a, a)), a)

RECURSIVE SumOffsets(_, _, _, _)
\* The sum of the offsets to the neighbours adj[i .. ]; with K < 0 only of those on
\* the side the normal points to
SumOffsets(p, adj, i, K) ==
  IF i > Len(adj) THEN Zero3
  ELSE LET d == Subtract(PointOf(adj[i]), PointOf(p))
           rest == SumOffsets(p, adj, i + 1, K)
       IN IF K < 0 /\ ~(Dot(d, NormalOf(p)) > 0) THEN rest ELSE Add(rest, d)

\* -m * f for a point with neighbours
SpringForce(p, adj, K, H) ==
  Scale(0 - Magnitude(K, H), Normalize(DivideBy(Len(adj), SumOffsets(p, adj, 1, K))))

\* The status test of the functor
IsPassive(st, p) == st # <<>> /\ st[p] = 0

\* memset(_Gradient, 0, ...)
KeepGradient(g) == g
ClearGradient(g) == [p \in 1 .. Len(g) |-> Zero3]

\* The functor on the whole range: _Gradient after parallel_for
EvaluatedGradient(g) ==
  [p \in 1 .. Len(g) |->
     IF IsPassive(status, p) THEN g[p]
     ELSE IF Len(edgeTable[p]) > 0
          THEN SpringForce(p, edgeTable[p], gaussCurvature[p], meanCurvature[p])
          ELSE g[p]]

\* SurfaceConstraint::EvaluateGradient(gradient, step, weight): the additive step
Accumulate(buf, g, step, weight) ==
  [p \in 1 .. Len(buf) |-> Add(buf[p], Scale(weight * step, g[p]))]

\* Values of _Gradient before the first call, and the arguments of a call
StartGradients(n) == {[p \in 1 .. n |-> Zero3], [p \in 1 .. n |-> <<7, 0 - 7, 7>>]}
StepScales == {1, 2}
Weights(n) == {n, 2 * n}

frameGrad == <<runVars, clampVars, curvVars, setVars, copyVars>>

\* The state after Initialize() and Update(): the curvature fields are computed
InitGradient ==
  /\ numberOfPoints \in {0, GradPoints}
  /\ \E g \in CurvatureFields :
       /\ geom = g
       /\ gaussCurvature = GaussField(g, numberOfPoints)
       /\ meanCurvature = MeanField(g, numberOfPoints)
  /\ clock = 0 /\ surfaceMTime = 0 /\ gaussMTime = 0 /\ meanMTime = 0
  /\ curvRuns = 0 /\ smoothRuns = 0 /\ updates = 0
  /\ status \in {<<>>, [p \in 1 .. numberOfPoints |-> 1],
                 [p \in 1 .. numberOfPoints |-> IF p = 1 THEN 0 ELSE 1]}
  /\ edgeTable \in EdgeTables(numberOfPoints)
  /\ curvGradient \in StartGradients(numberOfPoints)
  /\ leftBehind = curvGradient
  /\ callerGradient = [p \in 1 .. numberOfPoints |-> <<p, 0, 0 - p>>]
  /\ nEvaluations = 0
  /\ IdleRun /\ IdleClamp /\ IdleSet /\ IdleCopy

\* A stopping criterion makes point p passive
SetPassive(p) ==
  /\ status # <<>>
  /\ status[p] = 1
  /\ status' = [status EXCEPT ![p] = 0]
  /\ UNCHANGED <<edgeTable, curvGradient, callerGradient, leftBehind, nEvaluations, frameGrad>>

\* GaussCurvatureConstraint::EvaluateGradient(gradient, step, weight)
EvaluateGradient(step, weight) ==
  /\ nEvaluations < MaxEvaluations
  /\ nEvaluations' = nEvaluations + 1
  /\ leftBehind' = curvGradient
  /\ IF numberOfPoints = 0
     THEN UNCHANGED <<curvGradient, callerGradient>>
     ELSE \E g \in {EvaluatedGradient(ClearGradient(curvGradient))} :
            /\ curvGradient' = g
            /\ callerGradient' = Accumulate(callerGradient, g, step, weight \div numberOfPoints)
  /\ UNCHANGED <<status, edgeTable, frameGrad>>

NextGradient ==
  \/ \E p \in 1 .. numberOfPoints : SetPassive(p)
  \/ \E step \in StepScales : \E weight \in Weights(numberOfPoints) :
       EvaluateGradient(step, weight)

SpecGradient == InitGradient /\ [][NextGradient]_vars

\* C13: whatever an earlier call left in _Gradient, after EvaluateGradient() the
\* contribution of every passive point and of every point without neighbours is zero
\* and the caller's buffer holds at these points what it held before the call; a point
\* whose entry of the buffer changed is active and has a neighbour.
C13_SkippedPointsUntouched ==
  [][(nEvaluations' = nEvaluations + 1 /\ numberOfPoints > 0) =>
       \A p \in 1 .. numberOfPoints :
         /\ ((status # <<>> /\ status[p] = 0) \/ edgeTable[p] = <<>>)
              => (curvGradient'[p] = Zero3 /\ callerGradient'[p] = callerGradient[p])
         /\ callerGradient'[p] # callerGradient[p]
              => (~(status # <<>> /\ status[p] = 0) /\ edgeTable[p] # <<>>)]_vars

\* C13 witness: after the second call a passive point that has neighbours and had a
\* force after the first call has none, an active point has one, and the last point has
\* no neighbours and the entry of the buffer it began with
C13_Witness ==
  /\ nEvaluations = 2
  /\ numberOfPoints > 0
  /\ \E p \in 1 .. numberOfPoints :
       /\ status # <<>> /\ status[p] = 0
       /\ edgeTable[p] # <<>>
       /\ leftBehind[p] # Zero3
       /\ curvGradient[p] = Zero3
  /\ \E q \in 1 .. numberOfPoints : curvGradient[q] # Zero3
  /\ edgeTable[numberOfPoints] = <<>>
  /\ callerGradient[numberOfPoints] = <<numberOfPoints, 0, 0 - numberOfPoints>>

---------------------------------------------------------------------------
\* EulerMethod::CopyAttributes, the copy constructor and the assignment operator

\* largest number of points an optimizer holds buffers for
MaxCopyPoints == 2
\* copies in one behaviour
MaxCopies == 2

\* The optimizers copied from: each holds buffers for the degrees of freedom it records
Others ==
  {[StepLength |-> l, NormalizeStepLength |-> b, MaximumDisplacement |-> m,
    NormalDisplacement |-> FALSE, Delta |-> d, NumberOfDOFs |-> 3 * k,
    Gradient |-> ForceGradient(k),
    Displacement |-> [p \in 1 .. k |-> <<p, p, p>>]] :
     l \in StepLengths, b \in BOOLEAN, m \in MaximumDisplacements, d \in Thresholds,
     k \in 0 .. MaxCopyPoints}

\* The condition under which CopyAttributes() allocates the buffers anew, on
\* _NumberOfDOFs and other._NumberOfDOFs
MustReallocate(mine, theirs) == mine # theirs \/ theirs = 0

\* The buffer b after n values of a were copied into its first cap slots
Memcpy(b, a, n, cap) ==
  [p \in 1 .. Len(b) |-> IF 3 * p <= n /\ 3 * p <= cap THEN a[p] ELSE b[p]]

\* What a copy leaves alone
frameCopy == <<pc, iter, NumberOfSteps, Epsilon, LastDelta, value, retval, modelDOFs,
               converged, exitReason, calls, nIterStart, nIterEnd, nRemesh, nValue, nEnd,
               endValue, lastValueResult, valueAtIterStart, clampVars, curvVars, setVars,
               gradVars>>

\* EulerMethod::CopyAttributes(o), entered with the buffers g and d of size cap
CopyAttributes(o, cap, g, d) ==
  /\ StepLength' = o.StepLength
  /\ NormalizeStepLength' = o.NormalizeStepLength
  /\ MaximumDisplacement' = o.MaximumDisplacement
  /\ NormalDisplacement' = o.NormalDisplacement
  /\ NumberOfDOFs' = o.NumberOfDOFs
  /\ \E n \in {o.NumberOfDOFs} :
     \E size \in {IF MustReallocate(n, o.NumberOfDOFs) THEN n ELSE cap} :
     \E blank \in {[p \in 1 .. size \div 3 |-> Zero3]} :
       /\ allocated' = size
       /\ IF n > 0
          THEN /\ lastCopy' = [n |-> n, capacity |-> size]
               \* no allocation is reached with n > 0: the buffers are the old ones
               /\ Gradient' = Memcpy(g, o.Gradient, n, size)
               /\ Displacement' = Memcpy(d, o.Displacement, n, size)
               \* writing outside the buffers ends the process or goes unnoticed
               /\ IF n > size THEN crashed' \in BOOLEAN ELSE crashed' = FALSE
          ELSE /\ lastCopy' = NoCopy
               /\ Gradient' = blank
               /\ Displacement' = blank
               /\ crashed' = FALSE

\* EulerMethod::EulerMethod(const EulerMethod &o): a new optimizer takes the place of
\* the destination
CopyConstruct(o) ==
  /\ ~crashed
  /\ nCopies < MaxCopies
  /\ nCopies' = nCopies + 1
  /\ other' = o
  /\ Delta' = o.Delta
  /\ CopyAttributes(o, 0, <<>>, <<>>)
  /\ UNCHANGED frameCopy

\* EulerMethod::operator =(const EulerMethod &o) with another optimizer
Assign(o) ==
  /\ ~crashed
  /\ nCopies < MaxCopies
  /\ nCopies' = nCopies + 1
  /\ other' = o
  /\ Delta' = o.Delta
  /\ CopyAttributes(o, allocated, Gradient, Displacement)
  /\ UNCHANGED frameCopy

\* EulerMethod::operator =(*this)
AssignSelf ==
  /\ ~crashed
  /\ nCopies < MaxCopies
  /\ nCopies' = nCopies + 1
  /\ UNCHANGED <<allocated, other, lastCopy, crashed, configVars, NumberOfDOFs, Gradient,
                 Displacement, pc, iter, LastDelta, value, retval, modelDOFs, converged,
                 exitReason, calls, nIterStart, nIterEnd, nRemesh, nValue, nEnd, endValue,
                 lastValueResult, valueAtIterStart, clampVars, curvVars, setVars,
                 gradVars>>

\* The destination as Initialize() leaves an optimizer: buffers as large as the
\* recorded number of degrees of freedom
InitCopy ==
  /\ \E k \in 0 .. MaxCopyPoints :
       /\ allocated = 3 * k
       /\ NumberOfDOFs = 3 * k
       /\ modelDOFs = 3 * k
       /\ Gradient = ZeroGradient(k)
       /\ Displacement = ZeroGradient(k)
  /\ pc = "Idle" /\ iter = 0 /\ NumberOfSteps = 0 /\ Epsilon = EpsilonDefault
  /\ Delta = 0 /\ StepLength = Unit /\ NormalizeStepLength = TRUE
  /\ MaximumDisplacement = 0 /\ NormalDisplacement = FALSE /\ LastDelta = 0
  /\ value = 0 /\ retval = 0 /\ converged = FALSE /\ exitReason = "none"
  /\ calls = <<>> /\ nIterStart = 0 /\ nIterEnd = 0 /\ nRemesh = 0 /\ nValue = 0
  /\ nEnd = 0 /\ endValue = 0 /\ lastValueResult = 0 /\ valueAtIterStart = 0
  /\ other = NoOther /\ lastCopy = NoCopy /\ crashed = FALSE /\ nCopies = 0
  /\ IdleClamp /\ IdleCurv /\ IdleSet /\ IdleGrad

NextCopy ==
  \/ \E o \in Others : CopyConstruct(o)
  \/ \E o \in Others : Assign(o)
  \/ AssignSelf

SpecCopy == InitCopy /\ [][NextCopy]_vars

\* C14: when a copy construction or an assignment copies n > 0 values into the
\* destination's buffers, the buffers hold at least n values, whatever the destination
\* held before.
C14_CopyWithinCapacity ==
  lastCopy.n > 0 => lastCopy.capacity >= lastCopy.n

====
